---- MODULE Spec2Model ----
(***************************************************************************)
(* Model of backend/session_manager.py (class SessionManager): the five    *)
(* registries, the per-session worker task (_process_session /             *)
(* _process_message), the fire-and-forget hook tasks created by the three  *)
(* callbacks, and broadcast_to_session.                                    *)
(*                                                                         *)
(* asyncio is cooperative: a task runs without interruption from one       *)
(* suspension point to the next.  Every task action below therefore        *)
(* resumes one task at its suspension point and runs it up to the next     *)
(* one.  The suspension points are: the empty-queue wait of Queue.get(),   *)
(* ws.send_json(), and the call of sampling_loop.  queue.put() on an       *)
(* unbounded asyncio.Queue never suspends.                                 *)
(***************************************************************************)
EXTENDS Integers, Sequences, FiniteSets, TLC

\* ---------------------------------------------------------------- bounds
Ids == {"s1", "s2"}       \* session ids the callers use
PushSinks == {1, 2}       \* WebSocket objects; the number is the slot order of set iteration
PullSinks == {1}          \* asyncio.Queue objects of SSE clients
MaxCreates == 2           \* create_session calls
MaxSubmits == 2           \* queue_message calls; the k-th call submits the text k
MaxHooks == 1             \* callback invocations of the agent computation
MaxCalls == 5             \* calls of the API and peer disconnects, all together
NSlots == 3               \* slots of the hash table of a subscriber set
MaxSetCalls == 5          \* add/remove calls on the subscriber sets of the one session
MaxEvents == 2            \* broadcast_to_session calls for the one session
MaxFrames == 2            \* binary frames the inbound peer of the proxy sends
MaxBytes == 2             \* bytes the VNC server sends one at a time
ChunkSize == 4096         \* reader.read(4096)
MaxRequests == 4          \* HTTP requests the clients make
PageLimit == 100          \* `limit: int = 100` of GET /api/sessions/{id}/messages

VARIABLES
    sessions,           \* self.sessions: id -> session dict object
    message_queues,     \* self.message_queues: id -> queue object
    websocket_clients,  \* self.websocket_clients (defaultdict): id -> set of push-sinks
    sse_clients,        \* self.sse_clients (defaultdict): id -> set of pull-sinks
    processing_tasks,   \* self.processing_tasks: id -> worker task
    messages,           \* messages[k]: session dict k ["messages"]
    queue,              \* queue[k]: content of the asyncio.Queue object k
    worker,             \* worker[k]: the task created by the k-th create_session
    hooks,              \* the tasks created by the callbacks, in creation order
    closed,             \* push-sinks whose send_json raises
    recvW,              \* recvW[w]: events sent with success to push-sink w
    recvQ,              \* recvQ[q]: events put on pull-sink q
    emitted,            \* emitted[id]: events in the order the code emitted them
    submitted,          \* submitted[id]: texts put on a queue of id
    invoked,            \* invoked[id]: texts sampling_loop was called with
    faults,             \* exceptions that left a broadcast or the worker loop
    failed,             \* failed[id][w]: send attempts of id's broadcasts to w that raised
    removed,            \* ids remove_session took out of the registry
    raisedIn,           \* texts whose sampling_loop call raised
    left,               \* <<id, sink>>: pull-sinks remove_sse_client or remove_session dropped
    nsub,               \* queue_message calls so far
    ncalls,             \* API calls and disconnects so far
    last,               \* the last API call and what it gave back to its caller
    \* One session's subscriber sets and broadcasts, with the set as CPython keeps it:
    so_table,           \* websocket_clients[id]: slot -> a sink, 0 (never used) or -1 (dummy);
                        \* << >> as long as the defaultdict has no entry for the id
    so_hash,            \* the first slot hash(ws) leads to; 0 as long as ws was never added
    sse_set,            \* sse_clients[id]
    bc,                 \* the task inside broadcast_to_session and its set iterator
    sent,               \* <<event, sink>>: the send_json calls made, in order
    putq,               \* putq[q]: events put on pull-sink q
    down,               \* push-sinks whose send_json raises
    stuck,              \* push-sinks whose send_json never returns
    nset,               \* add/remove calls so far
    \* VNCProxy.handle_websocket of vnc_proxy.py, one call:
    handler,            \* where handle_websocket stands
    dial,               \* asyncio.open_connection: "pending", "ok" or "failed"
    client_to_vnc,      \* the task of _forward_client_to_vnc: [pc, cancel, data]
    vnc_to_client,      \* the task of _forward_vnc_to_client: [pc, cancel, data]
    ws_peer,            \* the inbound peer: "open" or "gone"
    ws_in,              \* frames the inbound peer sent, not yet received
    ws_out,             \* what handle_websocket and its tasks sent to the inbound peer
    sock,               \* the TCP connection: "none", "open", "eof", "reset", "closed"
    sock_in,            \* the buffer of the StreamReader: bytes of the VNC server, not yet read
    sock_out,           \* bytes written to the VNC server
    nframes,            \* frames the inbound peer sent so far
    nbytes,             \* bytes the VNC server sent so far
    \* The HTTP API of main.py over crud.py, with the database it writes:
    db_sessions,        \* table sessions: the ids of the rows
    db_lock,            \* ids of rows a DELETE has executed on and not committed
    db_messages,        \* table messages: the rows in the order of their timestamps
    requests,           \* the HTTP requests made: [op, sid, pc, val, text, status, mid, after]
    nuuid               \* uuid4 calls of crud.create_session so far

vars == <<sessions, message_queues, websocket_clients, sse_clients, processing_tasks,
          messages, queue, worker, hooks, closed, recvW, recvQ, emitted, submitted,
          invoked, faults, failed, removed, raisedIn, left, nsub, ncalls, last>>

bvars == <<so_table, so_hash, sse_set, bc, sent, putq, down, stuck, nset>>

pvars == <<handler, dial, client_to_vnc, vnc_to_client, ws_peer, ws_in, ws_out,
           sock, sock_in, sock_out, nframes, nbytes>>

avars == <<db_sessions, db_lock, db_messages, requests, nuuid>>

\* ------------------------------------------------------------- helpers
Min(S) == CHOOSE x \in S : \A y \in S : x <= y

\* del d[key]
Del(d, key) == [x \in DOMAIN d \ {key} |-> d[x]]

\* d[key] = val
Set(d, key, val) == (key :> val) @@ d

\* defaultdict(set).__getitem__ : a missing key reads as the empty set
GetDefault(d, key) == IF key \in DOMAIN d THEN d[key] ELSE {}

Event(type, sid, text, n) == [type |-> type, sid |-> sid, text |-> text, n |-> n]

NoEvent == Event("none", "", 0, 0)

\* A task: its suspension point (pc), the locals it holds there, and the state
\* of the set iterator of the WebSocket loop of broadcast_to_session.
NewTask(sid) ==
    [sid |-> sid, pc |-> "start", cancel |-> FALSE,
     wq |-> 0,          \* the queue object whose get() the worker awaits
     sess |-> 0,        \* local `session` of _process_message
     text |-> 0,        \* local `content`
     ev |-> NoEvent,    \* local `event` of broadcast_to_session
     cont |-> "none",   \* where broadcast_to_session returns to
     used |-> 0,        \* set iterator: size of the set when the loop began
     pos |-> 0,         \* set iterator: last slot visited
     cur |-> 0,         \* local `ws`, the sink whose send_json is awaited
     dead |-> {},       \* local `dead_clients`
     att |-> FALSE,     \* the iterated set is still the registry's entry
     obj |-> {}]        \* the iterated set, once the registry dropped it

ResetIter(T) ==
    [T EXCEPT !.used = 0, !.pos = 0, !.cur = 0, !.dead = {}, !.att = FALSE, !.obj = {},
              !.ev = NoEvent, !.cont = "none"]

Ended(T, how) == [NewTask(T.sid) EXCEPT !.pc = how]

\* The whole state as one record, threaded through the run of a task.
State ==
    [sessions |-> sessions, message_queues |-> message_queues,
     websocket_clients |-> websocket_clients, sse_clients |-> sse_clients,
     processing_tasks |-> processing_tasks, messages |-> messages, queue |-> queue,
     worker |-> worker, hooks |-> hooks, closed |-> closed, recvW |-> recvW,
     recvQ |-> recvQ, emitted |-> emitted, submitted |-> submitted, invoked |-> invoked,
     faults |-> faults, failed |-> failed, removed |-> removed,
     raisedIn |-> raisedIn, left |-> left, nsub |-> nsub, ncalls |-> ncalls, last |-> last]

\* The state of the session manager becomes M.
Assign(M) ==
    /\ sessions' = M.sessions
    /\ message_queues' = M.message_queues
    /\ websocket_clients' = M.websocket_clients
    /\ sse_clients' = M.sse_clients
    /\ processing_tasks' = M.processing_tasks
    /\ messages' = M.messages
    /\ queue' = M.queue
    /\ worker' = M.worker
    /\ hooks' = M.hooks
    /\ closed' = M.closed
    /\ recvW' = M.recvW
    /\ recvQ' = M.recvQ
    /\ emitted' = M.emitted
    /\ submitted' = M.submitted
    /\ invoked' = M.invoked
    /\ faults' = M.faults
    /\ failed' = M.failed
    /\ removed' = M.removed
    /\ raisedIn' = M.raisedIn
    /\ left' = M.left
    /\ nsub' = M.nsub
    /\ ncalls' = M.ncalls
    /\ last' = M.last

\* A step of the session manager alone.
Becomes(M) ==
    /\ Assign(M)
    /\ UNCHANGED <<bvars, pvars, avars>>

\* A task is named <<"w", k>> (worker k) or <<"h", h>> (hook task h).
Task(M, ref) == IF ref[1] = "w" THEN M.worker[ref[2]] ELSE M.hooks[ref[2]]

WithTask(M, ref, T) ==
    IF ref[1] = "w" THEN [M EXCEPT !.worker[ref[2]] = T]
                    ELSE [M EXCEPT !.hooks[ref[2]] = T]

Emit(M, ev) == [M EXCEPT !.emitted[ev.sid] = Append(@, ev)]

\* ------------------------------------------------- the run of a task
RECURSIVE WsLoop(_, _), SseLoop(_, _), Broadcast(_, _, _, _), Returned(_, _),
          Raised(_, _), WorkerLoop(_, _), ProcessMessage(_, _, _)

\* The set the WebSocket loop iterates: the registry's entry, or the set object
\* the task still holds after remove_session deleted the entry.
IterSet(M, T) == IF T.att THEN M.websocket_clients[T.sid] ELSE T.obj

\* broadcast_to_session, the `for ws in self.websocket_clients[session_id]` loop
\* from the iterator's next() on: a set whose size changed raises RuntimeError,
\* an exhausted iterator ends the loop, otherwise send_json is awaited.
WsLoop(M, ref) ==
    LET T == Task(M, ref)
        s == IterSet(M, T)
        rest == {w \in s : w > T.pos}
    IN  IF Cardinality(s) # T.used
          THEN Raised([M EXCEPT !.faults = @ \cup {<<ref, "RuntimeError", T.ev>>}], ref)
        ELSE IF rest # {}
          THEN WithTask(M, ref, [T EXCEPT !.pc = "send", !.cur = Min(rest), !.pos = Min(rest)])
        ELSE \* `for ws in dead_clients: self.websocket_clients[session_id].discard(ws)`
             LET M1 == IF T.dead = {} THEN M
                       ELSE [M EXCEPT !.websocket_clients =
                                Set(@, T.sid, GetDefault(@, T.sid) \ T.dead)]
             IN  SseLoop(M1, ref)

\* An SSE part of broadcast_to_session that puts the event on the queues of
\* every session.
SseLoopAll(M, ref) ==
    LET T == Task(M, ref)
        all == UNION {M.sse_clients[i] : i \in DOMAIN M.sse_clients}
    IN  Returned([M EXCEPT !.recvQ = [q \in PullSinks |->
                     IF q \in all THEN Append(@[q], T.ev) ELSE @[q]]], ref)

\* broadcast_to_session, the SSE part: queue.put on an unbounded queue never
\* suspends and never raises.
SseLoop(M, ref) ==
    LET T == Task(M, ref)
        M1 == IF T.sid \in DOMAIN M.sse_clients
                THEN [M EXCEPT !.recvQ = [q \in PullSinks |->
                         IF q \in M.sse_clients[T.sid] THEN Append(@[q], T.ev) ELSE @[q]]]
                ELSE M
    IN  Returned(M1, ref)

\* A broadcast_to_session without the test `if session_id in
\* self.websocket_clients`: it reads the defaultdict, which makes the entry.
BroadcastNoTest(M, ref, ev, cont) ==
    LET T == [ResetIter(Task(M, ref)) EXCEPT !.ev = ev, !.cont = cont]
        M0 == [M EXCEPT !.websocket_clients = Set(@, T.sid, GetDefault(@, T.sid))]
    IN  WsLoop(WithTask(M0, ref, [T EXCEPT !.att = TRUE,
                   !.used = Cardinality(M0.websocket_clients[T.sid])]), ref)

\* broadcast_to_session(session_id, ev), called by task ref, which continues
\* at cont when the broadcast returns.
Broadcast(M, ref, ev, cont) ==
    LET T == [ResetIter(Task(M, ref)) EXCEPT !.ev = ev, !.cont = cont]
    IN  IF T.sid \in DOMAIN M.websocket_clients
          THEN WsLoop(WithTask(M, ref, [T EXCEPT !.att = TRUE,
                         !.used = Cardinality(M.websocket_clients[T.sid])]), ref)
          ELSE SseLoop(WithTask(M, ref, T), ref)

\* _handle_error
HandleError(M, ref) ==
    LET T == Task(M, ref)
        ev == Event("error", T.sid, T.text, 0)
    IN  Broadcast(Emit(M, ev), ref, ev, "err")

\* The caller's code after a broadcast that returned.
Returned(M, ref) ==
    LET T == Task(M, ref)
    IN  CASE T.cont = "um" ->
               LET ev == Event("processing", T.sid, T.text, 0)
               IN  Broadcast(Emit(M, ev), ref, ev, "proc")
          [] T.cont = "proc" ->
               WithTask([M EXCEPT !.invoked[T.sid] = Append(@, T.text)], ref,
                        [ResetIter(T) EXCEPT !.pc = "sampling"])
          [] T.cont \in {"completed", "err"} ->
               WorkerLoop(WithTask(M, ref, [ResetIter(T) EXCEPT !.sess = 0, !.text = 0]), ref)
          [] OTHER -> WithTask(M, ref, Ended(T, "done"))

\* The caller's code after a broadcast that raised: only the broadcast of
\* status(completed) stands inside the try of _process_message.
Raised(M, ref) ==
    LET T == Task(M, ref)
    IN  CASE T.cont = "completed" -> HandleError(M, ref)
          [] T.cont \in {"um", "proc", "err"} -> WithTask(M, ref, Ended(T, "crashed"))
          [] OTHER -> WithTask(M, ref, Ended(T, "done"))

\* _process_session, the body of `while True` from the queue lookup on.
WorkerLoop(M, ref) ==
    LET T == Task(M, ref)
    IN  IF T.sid \notin DOMAIN M.message_queues
          THEN WithTask([M EXCEPT !.faults = @ \cup {<<ref, "KeyError", NoEvent>>}], ref,
                        Ended(T, "crashed"))
        ELSE LET q == M.message_queues[T.sid]
             IN  IF M.queue[q] = << >>
                   THEN WithTask(M, ref, [T EXCEPT !.pc = "wait", !.wq = q])
                   ELSE ProcessMessage([M EXCEPT !.queue[q] = Tail(@)], ref, Head(M.queue[q]))

\* _process_message up to its first suspension point.
ProcessMessage(M, ref, content) ==
    LET T == Task(M, ref)
    IN  IF T.sid \notin DOMAIN M.sessions
          THEN WorkerLoop(M, ref)
        ELSE LET s == M.sessions[T.sid]
                 ev == Event("user_message", T.sid, content, 0)
                 M1 == [M EXCEPT !.messages[s] = Append(@, <<"user", content>>)]
             IN  Broadcast(Emit(WithTask(M1, ref, [T EXCEPT !.sess = s, !.text = content, !.wq = 0]), ev),
                           ref, ev, "um")

\* ------------------------------------------------------------ initial state
\* SessionManager.__init__: five empty registries, no task.
Init ==
    /\ sessions = << >>
    /\ message_queues = << >>
    /\ websocket_clients = << >>
    /\ sse_clients = << >>
    /\ processing_tasks = << >>
    /\ messages = << >>
    /\ queue = << >>
    /\ worker = << >>
    /\ hooks = << >>
    /\ closed = {}
    /\ recvW = [w \in PushSinks |-> << >>]
    /\ recvQ = [q \in PullSinks |-> << >>]
    /\ emitted = [i \in Ids |-> << >>]
    /\ submitted = [i \in Ids |-> << >>]
    /\ invoked = [i \in Ids |-> << >>]
    /\ faults = {}
    /\ failed = [i \in Ids |-> [w \in PushSinks |-> 0]]
    /\ removed = {}
    /\ raisedIn = {}
    /\ left = {}
    /\ nsub = 0
    /\ ncalls = 0
    /\ last = [op |-> "none", sid |-> "", known |-> FALSE, ret |-> "None"]
    /\ so_table = << >>
    /\ so_hash = [w \in PushSinks |-> 0]
    /\ sse_set = {}
    /\ bc = [pc |-> "idle", event |-> 0, ws |-> 0, dead_clients |-> {}, si_used |-> 0, si_pos |-> 0]
    /\ sent = << >>
    /\ putq = [q \in PullSinks |-> << >>]
    /\ down = {}
    /\ stuck = {}
    /\ nset = 0
    /\ handler = "called"
    /\ dial = "pending"
    /\ client_to_vnc = [pc |-> "none", cancel |-> FALSE, data |-> << >>]
    /\ vnc_to_client = [pc |-> "none", cancel |-> FALSE, data |-> << >>]
    /\ ws_peer = "open"
    /\ ws_in = << >>
    /\ ws_out = << >>
    /\ sock = "none"
    /\ sock_in = << >>
    /\ sock_out = << >>
    /\ nframes = 0
    /\ nbytes = 0
    /\ db_sessions = {}
    /\ db_lock = {}
    /\ db_messages = << >>
    /\ requests = << >>
    /\ nuuid = 0

\* ------------------------------------------------------------ the API calls
\* One more call of the API (or one more disconnect) is made.
Called(M) == [M EXCEPT !.ncalls = @ + 1]

\* create_session: the three registry entries are assigned without a test of
\* the key, and a new task is created.
CreateSession(M, sid) ==
    LET k == Len(M.worker) + 1
    IN  [M EXCEPT !.sessions = Set(@, sid, k),
                  !.message_queues = Set(@, sid, k),
                  !.processing_tasks = Set(@, sid, k),
                  !.messages = Append(@, << >>),
                  !.queue = Append(@, << >>),
                  !.worker = Append(@, NewTask(sid))]

Create(sid) ==
    /\ ncalls < MaxCalls
    /\ Len(worker) < MaxCreates
    /\ Becomes(Called(CreateSession(State, sid)))

\* task.cancel(): the task runs no further code of its own; a finished task
\* is left as it is.
Cancel(T) ==
    IF T.pc \in {"cancelled", "crashed"} THEN T ELSE [ResetIter(T) EXCEPT !.cancel = TRUE]

\* A suspended WebSocket loop keeps the set object that `del` takes out of the
\* registry.
Detach(T, sid, set) ==
    IF T.att /\ T.sid = sid THEN [T EXCEPT !.att = FALSE, !.obj = set] ELSE T

RemoveSession(M, sid) ==
    LET M1 == IF sid \in DOMAIN M.websocket_clients
                THEN [M EXCEPT
                        !.worker = [k \in DOMAIN @ |-> Detach(@[k], sid, M.websocket_clients[sid])],
                        !.hooks = [h \in DOMAIN @ |-> Detach(@[h], sid, M.websocket_clients[sid])]]
                ELSE M
        M2 == IF sid \in DOMAIN M.processing_tasks
                THEN [M1 EXCEPT !.worker[M.processing_tasks[sid]] = Cancel(@)]
                ELSE M1
        M3 == [M2 EXCEPT !.removed = IF sid \in DOMAIN M.sessions THEN @ \cup {sid} ELSE @,
                         !.left = @ \cup {<<sid, q>> : q \in GetDefault(M.sse_clients, sid)}]
    IN  [M3 EXCEPT !.sessions = Del(@, sid),
                   !.message_queues = Del(@, sid),
                   !.websocket_clients = Del(@, sid),
                   !.sse_clients = Del(@, sid),
                   !.processing_tasks = Del(@, sid)]

Remove(sid) ==
    /\ ncalls < MaxCalls
    /\ Becomes(Called(RemoveSession(State, sid)))

\* A queue_message that also writes the text into the history of the session.
QueueMessageIntoHistory(M, sid, content) ==
    IF sid \notin DOMAIN M.message_queues THEN M
    ELSE [M EXCEPT !.queue[M.message_queues[sid]] = Append(@, content),
                   !.submitted[sid] = Append(@, content),
                   !.nsub = content,
                   !.messages[M.sessions[sid]] = Append(@, <<"user", content>>)]

\* queue_message: an unknown id is logged and the call returns; a known id
\* gets the text on its queue.  Both paths return None.
QueueMessage(M, sid, content) ==
    LET known == sid \in DOMAIN M.message_queues
        M1 == [M EXCEPT !.nsub = content,
                        !.last = [op |-> "submit", sid |-> sid, known |-> known, ret |-> "None"]]
    IN  IF ~known THEN M1
        ELSE [M1 EXCEPT !.queue[M.message_queues[sid]] = Append(@, content),
                        !.submitted[sid] = Append(@, content)]

Submit(sid) ==
    /\ ncalls < MaxCalls
    /\ nsub < MaxSubmits
    /\ Becomes(Called(QueueMessage(State, sid, nsub + 1)))

\* add_websocket_client: the defaultdict makes the entry of an id it has not.
AddWebsocketClient(M, sid, w) ==
    [M EXCEPT !.websocket_clients = Set(@, sid, GetDefault(@, sid) \cup {w})]

SubscribeWS(sid, w) ==
    /\ ncalls < MaxCalls
    /\ w \notin closed
    /\ w \notin GetDefault(websocket_clients, sid)
    /\ Becomes(Called(AddWebsocketClient(State, sid, w)))

\* A remove_websocket_client that leaves the sink in the set.
RemoveWebsocketClientKeeps(M, sid, w) == M

\* remove_websocket_client
RemoveWebsocketClient(M, sid, w) ==
    IF sid \in DOMAIN M.websocket_clients
      THEN [M EXCEPT !.websocket_clients[sid] = @ \ {w}]
      ELSE M

UnsubscribeWS(sid, w) ==
    /\ ncalls < MaxCalls
    /\ w \in GetDefault(websocket_clients, sid)
    /\ Becomes(Called(RemoveWebsocketClient(State, sid, w)))

\* add_sse_client
AddSseClient(M, sid, q) ==
    [M EXCEPT !.sse_clients = Set(@, sid, GetDefault(@, sid) \cup {q})]

SubscribeSSE(sid, q) ==
    /\ ncalls < MaxCalls
    /\ q \notin GetDefault(sse_clients, sid)
    /\ Becomes(Called(AddSseClient(State, sid, q)))

\* remove_sse_client
RemoveSseClient(M, sid, q) ==
    IF sid \in DOMAIN M.sse_clients
      THEN [M EXCEPT !.sse_clients[sid] = @ \ {q},
                     !.left = IF q \in M.sse_clients[sid] THEN @ \cup {<<sid, q>>} ELSE @]
      ELSE M

UnsubscribeSSE(sid, q) ==
    /\ ncalls < MaxCalls
    /\ q \in GetDefault(sse_clients, sid)
    /\ Becomes(Called(RemoveSseClient(State, sid, q)))

\* The peer of a push-sink goes away: from now on send_json to it raises.
Disconnect(w) ==
    /\ ncalls < MaxCalls
    /\ w \notin closed
    /\ \E i \in DOMAIN websocket_clients : w \in websocket_clients[i]
    /\ Becomes(Called([State EXCEPT !.closed = @ \cup {w}]))

\* ------------------------------------------------------------ the task steps
Refs == {<<"w", k>> : k \in DOMAIN worker} \cup {<<"h", h>> : h \in DOMAIN hooks}

\* The first step of a worker: _process_session up to its first suspension.
WorkerStart(k) ==
    /\ worker[k].pc = "start"
    /\ ~worker[k].cancel
    /\ Becomes(WorkerLoop(State, <<"w", k>>))

\* `await self.message_queues[session_id].get()` resumes: the awaited queue
\* object has an item.  When several workers await the same queue object, the
\* one that takes the item is any of them: the getter asyncio wakes first loses
\* the item to a task that calls get() before it runs.
WorkerWake(k) ==
    /\ worker[k].pc = "wait"
    /\ ~worker[k].cancel
    /\ queue[worker[k].wq] # << >>
    /\ LET q == worker[k].wq
       IN  Becomes(ProcessMessage([State EXCEPT !.queue[q] = Tail(@)], <<"w", k>>, Head(queue[q])))

\* CancelledError is thrown into the worker at its suspension point; it passes
\* every `except Exception` and ends _process_session.
WorkerCancelled(k) ==
    /\ worker[k].cancel
    /\ worker[k].pc \notin {"cancelled", "crashed"}
    /\ Becomes(WithTask(State, <<"w", k>>, Ended(worker[k], "cancelled")))

\* `await ws.send_json(event)` resumes, with the event sent or with an
\* exception, which puts the sink into dead_clients; the loop goes on.
SendResult(M, ref) ==
    LET T == Task(M, ref)
        w == T.cur
    IN  IF w \in M.closed
          THEN WithTask([M EXCEPT !.failed[T.sid][w] = @ + 1], ref, [T EXCEPT !.dead = @ \cup {w}])
          ELSE [M EXCEPT !.recvW[w] = Append(@, T.ev)]

SendDone(ref) ==
    /\ Task(State, ref).pc = "send"
    /\ ~Task(State, ref).cancel
    /\ Becomes(WsLoop(SendResult(State, ref), ref))

\* sampling_loop calls output_callback / tool_output_callback /
\* api_response_callback: asyncio.create_task(self._handle_...(session_id, ...)).
Callback(M, k) ==
    LET T == M.worker[k]
        ev == Event("hook", T.sid, T.text, Len(M.hooks) + 1)
    IN  Emit([M EXCEPT !.hooks = Append(@, [NewTask(T.sid) EXCEPT !.ev = ev, !.text = T.text])], ev)

AgentEmit(k) ==
    /\ worker[k].pc = "sampling"
    /\ ~worker[k].cancel
    /\ Len(hooks) < MaxHooks
    /\ Becomes(Callback(State, k))

\* The first step of a hook task: _handle_output / _handle_tool_result /
\* _handle_error broadcast their event.
HookStart(h) ==
    /\ hooks[h].pc = "start"
    /\ Becomes(Broadcast(State, <<"h", h>>, hooks[h].ev, "hook"))

\* sampling_loop returns the updated history: it becomes the session's
\* history and status(completed) is broadcast.
SamplingReturned(M, k) ==
    LET T == M.worker[k]
        ev == Event("completed", T.sid, T.text, 0)
        M1 == [M EXCEPT !.messages[T.sess] = Append(@, <<"assistant", T.text>>)]
    IN  Broadcast(Emit(M1, ev), <<"w", k>>, ev, "completed")

AgentReturn(k) ==
    /\ worker[k].pc = "sampling"
    /\ ~worker[k].cancel
    /\ Becomes(SamplingReturned(State, k))

\* An `except Exception` of _process_message that takes the user turn of the
\* failed dispatch out of the history again before it reports the error.
AgentRaiseRollsBack(k) ==
    /\ worker[k].pc = "sampling"
    /\ ~worker[k].cancel
    /\ LET s == worker[k].sess
       IN  Becomes(HandleError([State EXCEPT !.raisedIn = @ \cup {worker[k].text},
                                             !.messages[s] = SubSeq(@, 1, Len(@) - 1)],
                               <<"w", k>>))

\* sampling_loop raises: `except Exception` of _process_message.
AgentRaise(k) ==
    /\ worker[k].pc = "sampling"
    /\ ~worker[k].cancel
    /\ Becomes(HandleError([State EXCEPT !.raisedIn = @ \cup {worker[k].text}], <<"w", k>>))

Next ==
    \/ \E sid \in Ids : Create(sid)
    \/ \E sid \in Ids : Remove(sid)
    \/ \E sid \in Ids : Submit(sid)
    \/ \E sid \in Ids, w \in PushSinks : SubscribeWS(sid, w)
    \/ \E sid \in Ids, w \in PushSinks : UnsubscribeWS(sid, w)
    \/ \E sid \in Ids, q \in PullSinks : SubscribeSSE(sid, q)
    \/ \E sid \in Ids, q \in PullSinks : UnsubscribeSSE(sid, q)
    \/ \E w \in PushSinks : Disconnect(w)
    \/ \E k \in DOMAIN worker : WorkerStart(k)
    \/ \E k \in DOMAIN worker : WorkerWake(k)
    \/ \E k \in DOMAIN worker : WorkerCancelled(k)
    \/ \E ref \in Refs : SendDone(ref)
    \/ \E k \in DOMAIN worker : AgentEmit(k)
    \/ \E h \in DOMAIN hooks : HookStart(h)
    \/ \E k \in DOMAIN worker : AgentReturn(k)
    \/ \E k \in DOMAIN worker : AgentRaise(k)

Spec == Init /\ [][Next]_vars

\* ------------------------------------------------ one session's broadcasts over a CPython set
\* set iteration visits the slots of the hash table in index order, and where
\* set.add puts a key depends on the key's hash and on the dummy entries that
\* set.discard left.  The slots are numbered along the probe sequence.
Slots == 1..NSlots

HomeSlots == 1..2

EmptyTable == [i \in Slots |-> 0]

\* so->used: the number of keys in the set
TableUsed(t) == Cardinality({i \in DOMAIN t : t[i] > 0})

\* set.add(w), hash(w) leading to slot h: the probe goes on to the first slot
\* never used; the key goes into the last dummy slot the probe passed, or
\* else into that slot.  A key that is in the set is found on the way.
TableAdd(t, w, h) ==
    IF \E i \in DOMAIN t : t[i] = w THEN t
    ELSE LET unused == {i \in h..NSlots : t[i] = 0}
             upto == IF unused = {} THEN NSlots ELSE Min(unused)
             dummies == {i \in h..upto : t[i] = -1}
         IN  IF dummies # {}
               THEN [t EXCEPT ![CHOOSE i \in dummies : \A j \in dummies : j <= i] = w]
             ELSE IF unused # {} THEN [t EXCEPT ![upto] = w]
             ELSE t

\* set.discard(w): the slot of the key becomes a dummy
TableDiscard(t, w) == [i \in DOMAIN t |-> IF t[i] = w THEN -1 ELSE t[i]]

RECURSIVE TableDiscardAll(_, _)
TableDiscardAll(t, ws) ==
    IF ws = {} THEN t
    ELSE LET w == Min(ws) IN TableDiscardAll(TableDiscard(t, w), ws \ {w})

\* add_websocket_client: the defaultdict makes the set of an id it has not.
AddClient(w) ==
    /\ nset < MaxSetCalls
    /\ \E h \in HomeSlots :
          /\ so_hash[w] \in {0, h}
          /\ so_hash' = [so_hash EXCEPT ![w] = h]
          /\ so_table' = TableAdd(IF so_table = << >> THEN EmptyTable ELSE so_table, w, h)
    /\ nset' = nset + 1
    /\ UNCHANGED <<sse_set, bc, sent, putq, down, stuck>>
    /\ UNCHANGED <<vars, pvars, avars>>

\* remove_websocket_client
DiscardClient(w) ==
    /\ nset < MaxSetCalls
    /\ \E i \in DOMAIN so_table : so_table[i] = w
    /\ so_table' = TableDiscard(so_table, w)
    /\ nset' = nset + 1
    /\ UNCHANGED <<so_hash, sse_set, bc, sent, putq, down, stuck>>
    /\ UNCHANGED <<vars, pvars, avars>>

\* add_sse_client
AddQueue(q) ==
    /\ nset < MaxSetCalls
    /\ q \notin sse_set
    /\ sse_set' = sse_set \cup {q}
    /\ nset' = nset + 1
    /\ UNCHANGED <<so_table, so_hash, bc, sent, putq, down, stuck>>
    /\ UNCHANGED <<vars, pvars, avars>>

\* remove_sse_client
DiscardQueue(q) ==
    /\ nset < MaxSetCalls
    /\ q \in sse_set
    /\ sse_set' = sse_set \ {q}
    /\ nset' = nset + 1
    /\ UNCHANGED <<so_table, so_hash, bc, sent, putq, down, stuck>>
    /\ UNCHANGED <<vars, pvars, avars>>

\* The peer of a push-sink goes away: from now on send_json to it raises.
PeerDown(w) ==
    /\ w \notin down \cup stuck
    /\ down' = down \cup {w}
    /\ UNCHANGED <<so_table, so_hash, sse_set, bc, sent, putq, stuck, nset>>
    /\ UNCHANGED <<vars, pvars, avars>>

\* The peer of a push-sink stops reading: from now on send_json to it never returns.
PeerStuck(w) ==
    /\ w \notin down \cup stuck
    /\ stuck' = stuck \cup {w}
    /\ UNCHANGED <<so_table, so_hash, sse_set, bc, sent, putq, down, nset>>
    /\ UNCHANGED <<vars, pvars, avars>>

\* broadcast_to_session from the next() of the `for ws in ...` loop on, the
\* task being b: a set whose size changed raises RuntimeError; the next key at
\* or after the iterator's slot is sent to (a suspension point); with no key
\* left the dead clients are discarded and the SSE loop, which never suspends,
\* puts the event on every queue.
WsStep(b) ==
    LET keys == {i \in DOMAIN so_table : i >= b.si_pos /\ so_table[i] > 0}
    IN  IF so_table # << >> /\ TableUsed(so_table) # b.si_used
          THEN /\ bc' = [b EXCEPT !.pc = "raised", !.ws = 0]
               /\ UNCHANGED <<so_table, sent, putq>>
        ELSE IF keys # {}
          THEN /\ bc' = [b EXCEPT !.pc = "send", !.ws = so_table[Min(keys)],
                                  !.si_pos = Min(keys) + 1]
               /\ sent' = Append(sent, <<b.event, so_table[Min(keys)]>>)
               /\ UNCHANGED <<so_table, putq>>
        ELSE /\ so_table' = TableDiscardAll(so_table, b.dead_clients)
             /\ putq' = [q \in PullSinks |->
                            IF q \in sse_set THEN Append(putq[q], b.event) ELSE putq[q]]
             /\ bc' = [b EXCEPT !.pc = "idle", !.ws = 0, !.dead_clients = {}]
             /\ UNCHANGED sent

\* A task calls broadcast_to_session(id, event).
BeginBroadcast ==
    /\ bc.pc \in {"idle", "raised"}
    /\ bc.event < MaxEvents
    /\ WsStep([pc |-> "loop", event |-> bc.event + 1, ws |-> 0, dead_clients |-> {},
               si_used |-> TableUsed(so_table), si_pos |-> 1])
    /\ UNCHANGED <<so_hash, sse_set, down, stuck, nset>>
    /\ UNCHANGED <<vars, pvars, avars>>

\* `await ws.send_json(event)` resumes, with the event sent or with an
\* exception, which puts the sink into dead_clients; the loop goes on.
SendReturns ==
    /\ bc.pc = "send"
    /\ bc.ws \notin stuck
    /\ WsStep(IF bc.ws \in down THEN [bc EXCEPT !.dead_clients = @ \cup {bc.ws}] ELSE bc)
    /\ UNCHANGED <<so_hash, sse_set, down, stuck, nset>>
    /\ UNCHANGED <<vars, pvars, avars>>

BroadcastNext ==
    \/ \E w \in PushSinks : AddClient(w)
    \/ \E w \in PushSinks : DiscardClient(w)
    \/ \E q \in PullSinks : AddQueue(q)
    \/ \E q \in PullSinks : DiscardQueue(q)
    \/ \E w \in PushSinks : PeerDown(w)
    \/ \E w \in PushSinks : PeerStuck(w)
    \/ BeginBroadcast
    \/ SendReturns

BroadcastSpec == Init /\ [][BroadcastNext]_bvars

\* ------------------------------------------------ vnc_proxy.py: one handle_websocket call
\* The handler and its two tasks run from suspension point to suspension
\* point: accept(), open_connection(), asyncio.wait() and wait_closed() in
\* the handler; receive_bytes() and drain() in _forward_client_to_vnc; read()
\* and send_bytes() in _forward_vnc_to_client.
Finished(t) == t.pc \in {"done", "cancelled"}

\* A task.cancel() that requests no cancellation.
CancelNothing(t) == t

\* task.cancel(): CancelledError is thrown into a task that has not finished.
CancelTask(t) == IF Finished(t) THEN t ELSE [t EXCEPT !.cancel = TRUE]

\* `await websocket.accept()` returns; open_connection is awaited.
Accept ==
    /\ handler = "called"
    /\ handler' = "dial"
    /\ UNCHANGED <<dial, client_to_vnc, vnc_to_client, ws_peer, ws_in, ws_out,
                   sock, sock_in, sock_out, nframes, nbytes>>
    /\ UNCHANGED <<vars, bvars, avars>>

\* open_connection returns reader and writer: the two tasks are created and
\* asyncio.wait is awaited; each task runs up to its first await.
DialOk ==
    /\ handler = "dial"
    /\ dial' = "ok"
    /\ sock' = "open"
    /\ client_to_vnc' = [client_to_vnc EXCEPT !.pc = "receive_bytes"]
    /\ vnc_to_client' = [vnc_to_client EXCEPT !.pc = "read"]
    /\ handler' = "wait"
    /\ UNCHANGED <<ws_peer, ws_in, ws_out, sock_in, sock_out, nframes, nbytes>>
    /\ UNCHANGED <<vars, bvars, avars>>

\* open_connection raises (OSError): `except Exception` logs the error,
\* `finally` logs, and handle_websocket returns.
DialFails ==
    /\ handler = "dial"
    /\ dial' = "failed"
    /\ handler' = "returned"
    /\ UNCHANGED <<client_to_vnc, vnc_to_client, ws_peer, ws_in, ws_out,
                   sock, sock_in, sock_out, nframes, nbytes>>
    /\ UNCHANGED <<vars, bvars, avars>>

\* An asyncio.wait with return_when=ALL_COMPLETED: it returns when both tasks
\* have finished, and no task is left to cancel.
WaitReturnsAllCompleted ==
    /\ handler = "wait"
    /\ Finished(client_to_vnc) /\ Finished(vnc_to_client)
    /\ sock' = "closed"
    /\ handler' = "wait_closed"
    /\ UNCHANGED <<dial, client_to_vnc, vnc_to_client, ws_peer, ws_in, ws_out,
                   sock_in, sock_out, nframes, nbytes>>
    /\ UNCHANGED <<vars, bvars, avars>>

\* asyncio.wait(FIRST_COMPLETED) returns: the pending tasks are cancelled,
\* writer.close() is called and wait_closed() is awaited.
WaitReturns ==
    /\ handler = "wait"
    /\ Finished(client_to_vnc) \/ Finished(vnc_to_client)
    /\ client_to_vnc' = CancelTask(client_to_vnc)
    /\ vnc_to_client' = CancelTask(vnc_to_client)
    /\ sock' = "closed"
    /\ handler' = "wait_closed"
    /\ UNCHANGED <<dial, ws_peer, ws_in, ws_out, sock_in, sock_out, nframes, nbytes>>
    /\ UNCHANGED <<vars, bvars, avars>>

\* wait_closed() returns or raises: `finally` logs and handle_websocket returns.
WaitClosedReturns ==
    /\ handler = "wait_closed"
    /\ handler' = "returned"
    /\ UNCHANGED <<dial, client_to_vnc, vnc_to_client, ws_peer, ws_in, ws_out,
                   sock, sock_in, sock_out, nframes, nbytes>>
    /\ UNCHANGED <<vars, bvars, avars>>

\* _forward_client_to_vnc: receive_bytes() returns a frame, writer.write(data)
\* buffers it, drain() is awaited.
ReceiveBytes ==
    /\ client_to_vnc.pc = "receive_bytes" /\ ~client_to_vnc.cancel
    /\ ws_in # << >>
    /\ ws_in' = Tail(ws_in)
    /\ sock_out' = sock_out \o Head(ws_in)
    /\ client_to_vnc' = [client_to_vnc EXCEPT !.pc = "drain", !.data = Head(ws_in)]
    /\ UNCHANGED <<handler, dial, vnc_to_client, ws_peer, ws_out, sock, sock_in, nframes, nbytes>>
    /\ UNCHANGED <<vars, bvars, avars>>

\* receive_bytes() raises WebSocketDisconnect: `except WebSocketDisconnect: pass`.
ReceiveDisconnect ==
    /\ client_to_vnc.pc = "receive_bytes" /\ ~client_to_vnc.cancel
    /\ ws_in = << >> /\ ws_peer = "gone"
    /\ client_to_vnc' = [client_to_vnc EXCEPT !.pc = "done", !.data = << >>]
    /\ UNCHANGED <<handler, dial, vnc_to_client, ws_peer, ws_in, ws_out,
                   sock, sock_in, sock_out, nframes, nbytes>>
    /\ UNCHANGED <<vars, bvars, avars>>

\* drain() returns, and the loop awaits the next frame; or it raises on a
\* broken connection: `except Exception` logs and the task ends.
Drain ==
    /\ client_to_vnc.pc = "drain" /\ ~client_to_vnc.cancel
    /\ client_to_vnc' = [client_to_vnc EXCEPT
                            !.pc = IF sock = "reset" THEN "done" ELSE "receive_bytes",
                            !.data = << >>]
    /\ UNCHANGED <<handler, dial, vnc_to_client, ws_peer, ws_in, ws_out,
                   sock, sock_in, sock_out, nframes, nbytes>>
    /\ UNCHANGED <<vars, bvars, avars>>

\* A reader.read() without a limit: it returns every byte in the buffer.
ReadAll ==
    /\ vnc_to_client.pc = "read" /\ ~vnc_to_client.cancel
    /\ sock_in # << >>
    /\ vnc_to_client' = [vnc_to_client EXCEPT !.pc = "send_bytes", !.data = sock_in]
    /\ sock_in' = << >>
    /\ UNCHANGED <<handler, dial, client_to_vnc, ws_peer, ws_in, ws_out,
                   sock, sock_out, nframes, nbytes>>
    /\ UNCHANGED <<vars, bvars, avars>>

\* _forward_vnc_to_client: reader.read(4096) resumes when the buffer of the
\* StreamReader holds data and returns what it holds, 4096 bytes at most,
\* leaving the rest; send_bytes(data) is awaited.
Read ==
    /\ vnc_to_client.pc = "read" /\ ~vnc_to_client.cancel
    /\ sock_in # << >>
    /\ LET n == IF Len(sock_in) < ChunkSize THEN Len(sock_in) ELSE ChunkSize
       IN  /\ vnc_to_client' = [vnc_to_client EXCEPT !.pc = "send_bytes",
                                                     !.data = SubSeq(sock_in, 1, n)]
           /\ sock_in' = SubSeq(sock_in, n + 1, Len(sock_in))
    /\ UNCHANGED <<handler, dial, client_to_vnc, ws_peer, ws_in, ws_out,
                   sock, sock_out, nframes, nbytes>>
    /\ UNCHANGED <<vars, bvars, avars>>

\* reader.read returns b"" at the end of the stream (`if not data: break`), or
\* raises on a broken connection (`except Exception`): the task ends.
ReadEnds ==
    /\ vnc_to_client.pc = "read" /\ ~vnc_to_client.cancel
    /\ sock_in = << >> /\ sock \in {"eof", "reset"}
    /\ vnc_to_client' = [vnc_to_client EXCEPT !.pc = "done"]
    /\ UNCHANGED <<handler, dial, client_to_vnc, ws_peer, ws_in, ws_out,
                   sock, sock_in, sock_out, nframes, nbytes>>
    /\ UNCHANGED <<vars, bvars, avars>>

\* send_bytes(data) returns, and the loop reads on; or it raises because the
\* inbound peer is gone: `except Exception` logs and the task ends.
SendBytes ==
    /\ vnc_to_client.pc = "send_bytes" /\ ~vnc_to_client.cancel
    /\ IF ws_peer = "open"
         THEN /\ ws_out' = Append(ws_out, [kind |-> "bytes", data |-> vnc_to_client.data])
              /\ vnc_to_client' = [vnc_to_client EXCEPT !.pc = "read", !.data = << >>]
         ELSE /\ ws_out' = ws_out
              /\ vnc_to_client' = [vnc_to_client EXCEPT !.pc = "done", !.data = << >>]
    /\ UNCHANGED <<handler, dial, client_to_vnc, ws_peer, ws_in, sock, sock_in, sock_out,
                   nframes, nbytes>>
    /\ UNCHANGED <<vars, bvars, avars>>

\* CancelledError reaches a cancelled task at its await: it passes `except
\* Exception` and ends the task.
PumpCancelled ==
    /\ \/ /\ client_to_vnc.cancel /\ ~Finished(client_to_vnc)
          /\ client_to_vnc' = [pc |-> "cancelled", cancel |-> TRUE, data |-> << >>]
          /\ UNCHANGED vnc_to_client
       \/ /\ vnc_to_client.cancel /\ ~Finished(vnc_to_client)
          /\ vnc_to_client' = [pc |-> "cancelled", cancel |-> TRUE, data |-> << >>]
          /\ UNCHANGED client_to_vnc
    /\ UNCHANGED <<handler, dial, ws_peer, ws_in, ws_out, sock, sock_in, sock_out,
                   nframes, nbytes>>
    /\ UNCHANGED <<vars, bvars, avars>>

\* The inbound peer sends a binary frame; the k-th frame holds the byte k.
PeerSends ==
    /\ handler # "called" /\ ws_peer = "open"
    /\ nframes < MaxFrames
    /\ nframes' = nframes + 1
    /\ ws_in' = Append(ws_in, <<nframes + 1>>)
    /\ UNCHANGED <<handler, dial, client_to_vnc, vnc_to_client, ws_peer, ws_out,
                   sock, sock_in, sock_out, nbytes>>
    /\ UNCHANGED <<vars, bvars, avars>>

\* The inbound peer closes its connection.
PeerCloses ==
    /\ handler # "called" /\ ws_peer = "open"
    /\ ws_peer' = "gone"
    /\ UNCHANGED <<handler, dial, client_to_vnc, vnc_to_client, ws_in, ws_out,
                   sock, sock_in, sock_out, nframes, nbytes>>
    /\ UNCHANGED <<vars, bvars, avars>>

\* The k-th byte of the stream the VNC server sends.
ServerByte(k) == (100 + k) % 256

\* The VNC server sends a byte.
ServerSends ==
    /\ sock = "open"
    /\ nbytes < MaxBytes
    /\ nbytes' = nbytes + 1
    /\ sock_in' = Append(sock_in, ServerByte(nbytes + 1))
    /\ UNCHANGED <<handler, dial, client_to_vnc, vnc_to_client, ws_peer, ws_in, ws_out,
                   sock, sock_out, nframes>>
    /\ UNCHANGED <<vars, bvars, avars>>

\* The VNC server sends a payload one byte longer than the chunk of a read,
\* and no single bytes after it.
ServerSendsPayload ==
    /\ sock = "open"
    /\ nbytes < MaxBytes
    /\ nbytes' = nbytes + ChunkSize + 1
    /\ sock_in' = sock_in \o [i \in 1..(ChunkSize + 1) |-> ServerByte(nbytes + i)]
    /\ UNCHANGED <<handler, dial, client_to_vnc, vnc_to_client, ws_peer, ws_in, ws_out,
                   sock, sock_out, nframes>>
    /\ UNCHANGED <<vars, bvars, avars>>

\* The VNC server closes the connection (end of stream) or the connection breaks.
ServerEnds ==
    /\ sock = "open"
    /\ sock' \in {"eof", "reset"}
    /\ UNCHANGED <<handler, dial, client_to_vnc, vnc_to_client, ws_peer, ws_in, ws_out,
                   sock_in, sock_out, nframes, nbytes>>
    /\ UNCHANGED <<vars, bvars, avars>>

ProxyNext ==
    \/ Accept
    \/ DialOk
    \/ DialFails
    \/ WaitReturns
    \/ WaitClosedReturns
    \/ ReceiveBytes
    \/ ReceiveDisconnect
    \/ Drain
    \/ Read
    \/ ReadEnds
    \/ SendBytes
    \/ PumpCancelled
    \/ PeerSends
    \/ PeerCloses
    \/ ServerSends
    \/ ServerSendsPayload
    \/ ServerEnds

ProxySpec == Init /\ [][ProxyNext]_pvars

\* The steps of the handler and of its two tasks.  The event loop resumes a
\* task whose awaited call can return, so each of them is taken when it stays
\* possible; what the peer and the server do is under no such condition.
ProxyStep ==
    \/ Accept
    \/ DialOk
    \/ DialFails
    \/ WaitReturns
    \/ WaitClosedReturns
    \/ ReceiveBytes
    \/ ReceiveDisconnect
    \/ Drain
    \/ Read
    \/ ReadEnds
    \/ SendBytes
    \/ PumpCancelled

FairProxySpec == ProxySpec /\ WF_pvars(ProxyStep)

\* ------------------------------------------------ main.py: the HTTP API over crud.py
\* A handler runs from one await of a database call to the next.  A database
\* call takes effect when it is made; the handler resumes in a later step, and
\* handlers of other requests run in between.  The worker tasks, which change
\* neither the tables nor the registry of sessions, take no step here.
\* The database is the one of the tests (SQLite): a reader sees a row until
\* the DELETE that removes it commits, a second DELETE of a row waits for the
\* first, and the foreign key of messages.session_id is not enforced.

\* str(uuid.uuid4()) of crud.create_session: the k-th call gives the k-th id.
UuidSeq == <<"s1", "s2">>

\* str(uuid.uuid4()) of crud.create_message, for the n-th row of the table.
MessageId(n) == <<"m", n>>

NewRequest(op, sid, pc, val, text) ==
    [op |-> op, sid |-> sid, pc |-> pc, val |-> val, text |-> text,
     status |-> 0,      \* the status code of the response, 0 as long as there is none
     mid |-> <<>>,      \* "message_id" of the response
     after |-> {i \in DOMAIN requests : requests[i].status # 0}]   \* the requests answered before

Hub == UNCHANGED <<sessions, message_queues, websocket_clients, sse_clients, processing_tasks,
                   messages, queue, worker, hooks, closed, recvW, recvQ, emitted, submitted,
                   invoked, faults, failed, removed, raisedIn, left, nsub, ncalls, last>>

\* crud.get_messages(db, session_id, skip, limit): the rows of the session in
\* timestamp order, without the first skip, limit of them at most.
RECURSIVE SelectMessages(_, _)
SelectMessages(rows, sid) ==
    IF rows = << >> THEN << >>
    ELSE IF Head(rows).session_id = sid
           THEN <<Head(rows)>> \o SelectMessages(Tail(rows), sid)
           ELSE SelectMessages(Tail(rows), sid)

GetMessages(sid, skip, limit) ==
    LET rows == SelectMessages(db_messages, sid)
        last_ == IF skip + limit < Len(rows) THEN skip + limit ELSE Len(rows)
    IN  SubSeq(rows, skip + 1, last_)

\* POST /api/sessions: crud.create_session makes the row with a new uuid and
\* awaits the commit.
PostSession ==
    /\ Len(requests) < MaxRequests
    /\ nuuid < Len(UuidSeq)
    /\ nuuid' = nuuid + 1
    /\ db_sessions' = db_sessions \cup {UuidSeq[nuuid + 1]}
    /\ requests' = Append(requests, NewRequest("create", UuidSeq[nuuid + 1], "commit", TRUE, 0))
    /\ UNCHANGED <<db_lock, db_messages>>
    /\ Hub /\ UNCHANGED <<bvars, pvars>>

\* crud.create_session after the commit: db.refresh(session) reads the row
\* again, and raises when it is gone.
PostSessionRefresh(r) ==
    /\ requests[r].op = "create" /\ requests[r].pc = "commit"
    /\ requests' = [requests EXCEPT ![r].pc = "refresh", ![r].val = requests[r].sid \in db_sessions]
    /\ UNCHANGED <<db_sessions, db_lock, db_messages, nuuid>>
    /\ Hub /\ UNCHANGED <<bvars, pvars>>

\* create_session of main.py after crud.create_session: the session is made in
\* the session manager and the response is sent; an exception gives 500.
PostSessionEnds(r) ==
    /\ requests[r].op = "create" /\ requests[r].pc = "refresh"
    /\ IF requests[r].val
         THEN /\ Assign(CreateSession(State, requests[r].sid))
              /\ requests' = [requests EXCEPT ![r].pc = "done", ![r].status = 200]
         ELSE /\ Hub
              /\ requests' = [requests EXCEPT ![r].pc = "done", ![r].status = 500]
    /\ UNCHANGED <<db_sessions, db_lock, db_messages, nuuid>>
    /\ UNCHANGED <<bvars, pvars>>

\* DELETE /api/sessions/{id}: crud.delete_session executes the delete
\* statement, which gives the row count.
DeleteSession(sid) ==
    /\ Len(requests) < MaxRequests
    /\ sid \notin db_lock
    /\ db_lock' = IF sid \in db_sessions THEN db_lock \cup {sid} ELSE db_lock
    /\ requests' = Append(requests, NewRequest("delete", sid, "execute", sid \in db_sessions, 0))
    /\ UNCHANGED <<db_sessions, db_messages, nuuid>>
    /\ Hub /\ UNCHANGED <<bvars, pvars>>

\* crud.delete_session: `await db.commit()`.
DeleteSessionCommit(r) ==
    /\ requests[r].op = "delete" /\ requests[r].pc = "execute"
    /\ IF requests[r].val
         THEN /\ db_sessions' = db_sessions \ {requests[r].sid}
              /\ db_lock' = db_lock \ {requests[r].sid}
         ELSE UNCHANGED <<db_sessions, db_lock>>
    /\ requests' = [requests EXCEPT ![r].pc = "commit"]
    /\ UNCHANGED <<db_messages, nuuid>>
    /\ Hub /\ UNCHANGED <<bvars, pvars>>

\* delete_session of main.py after crud.delete_session: 404 when no row was
\* deleted, else remove_session and the response.
DeleteSessionEnds(r) ==
    /\ requests[r].op = "delete" /\ requests[r].pc = "commit"
    /\ IF requests[r].val
         THEN /\ Assign(RemoveSession(State, requests[r].sid))
              /\ requests' = [requests EXCEPT ![r].pc = "done", ![r].status = 200]
         ELSE /\ Hub
              /\ requests' = [requests EXCEPT ![r].pc = "done", ![r].status = 404]
    /\ UNCHANGED <<db_sessions, db_lock, db_messages, nuuid>>
    /\ UNCHANGED <<bvars, pvars>>

\* GET /api/sessions/{id}: crud.get_session selects the row.
GetSession(sid) ==
    /\ Len(requests) < MaxRequests
    /\ requests' = Append(requests, NewRequest("get", sid, "select", sid \in db_sessions, 0))
    /\ UNCHANGED <<db_sessions, db_lock, db_messages, nuuid>>
    /\ Hub /\ UNCHANGED <<bvars, pvars>>

\* get_session of main.py after crud.get_session: 404 without a row.
GetSessionEnds(r) ==
    /\ requests[r].op = "get" /\ requests[r].pc = "select"
    /\ requests' = [requests EXCEPT ![r].pc = "done",
                                    ![r].status = IF requests[r].val THEN 200 ELSE 404]
    /\ UNCHANGED <<db_sessions, db_lock, db_messages, nuuid>>
    /\ Hub /\ UNCHANGED <<bvars, pvars>>

\* POST /api/sessions/{id}/messages: crud.get_session selects the row of the
\* session.  The k-th request of this kind carries the text k.
PostMessage(sid) ==
    /\ Len(requests) < MaxRequests
    /\ LET k == Cardinality({i \in DOMAIN requests : requests[i].op = "post"}) + 1
       IN  requests' = Append(requests, NewRequest("post", sid, "select", sid \in db_sessions, k))
    /\ UNCHANGED <<db_sessions, db_lock, db_messages, nuuid>>
    /\ Hub /\ UNCHANGED <<bvars, pvars>>

\* A crud.create_message that adds no row to the table.
PostMessageStoresNothing(r) ==
    /\ requests[r].op = "post" /\ requests[r].pc = "select"
    /\ IF requests[r].val
         THEN requests' = [requests EXCEPT ![r].pc = "commit",
                                           ![r].mid = MessageId(Len(db_messages) + 1)]
         ELSE requests' = [requests EXCEPT ![r].pc = "done", ![r].status = 404]
    /\ UNCHANGED <<db_sessions, db_lock, db_messages, nuuid>>
    /\ Hub /\ UNCHANGED <<bvars, pvars>>

\* send_message after crud.get_session: 404 without a row; else
\* crud.create_message makes the row of the user message and awaits the commit.
PostMessageStores(r) ==
    /\ requests[r].op = "post" /\ requests[r].pc = "select"
    /\ IF requests[r].val
         THEN /\ db_messages' = Append(db_messages,
                                   [id |-> MessageId(Len(db_messages) + 1),
                                    session_id |-> requests[r].sid,
                                    role |-> "user",
                                    content |-> requests[r].text])
              /\ requests' = [requests EXCEPT ![r].pc = "commit",
                                              ![r].mid = MessageId(Len(db_messages) + 1)]
         ELSE /\ UNCHANGED db_messages
              /\ requests' = [requests EXCEPT ![r].pc = "done", ![r].status = 404]
    /\ UNCHANGED <<db_sessions, db_lock, nuuid>>
    /\ Hub /\ UNCHANGED <<bvars, pvars>>

\* crud.create_message after the commit: db.refresh(message); no row of the
\* table messages is ever deleted.
PostMessageRefresh(r) ==
    /\ requests[r].op = "post" /\ requests[r].pc = "commit"
    /\ requests' = [requests EXCEPT ![r].pc = "refresh"]
    /\ UNCHANGED <<db_sessions, db_lock, db_messages, nuuid>>
    /\ Hub /\ UNCHANGED <<bvars, pvars>>

\* send_message after crud.create_message: queue_message, and the response
\* with message_id, session_id and status "queued".
PostMessageEnds(r) ==
    /\ requests[r].op = "post" /\ requests[r].pc = "refresh"
    /\ Assign(QueueMessage(State, requests[r].sid, requests[r].text))
    /\ requests' = [requests EXCEPT ![r].pc = "done", ![r].status = 200]
    /\ UNCHANGED <<db_sessions, db_lock, db_messages, nuuid>>
    /\ UNCHANGED <<bvars, pvars>>

\* GET /api/sessions/{id}/messages with the default skip and limit:
\* crud.get_messages selects the rows; val is the number of rows.
ListMessages(sid) ==
    /\ Len(requests) < MaxRequests
    /\ requests' = Append(requests,
                      NewRequest("list", sid, "select", Len(GetMessages(sid, 0, PageLimit)), 0))
    /\ UNCHANGED <<db_sessions, db_lock, db_messages, nuuid>>
    /\ Hub /\ UNCHANGED <<bvars, pvars>>

\* get_messages of main.py after crud.get_messages: the rows are the response.
ListMessagesEnds(r) ==
    /\ requests[r].op = "list" /\ requests[r].pc = "select"
    /\ requests' = [requests EXCEPT ![r].pc = "done", ![r].status = 200]
    /\ UNCHANGED <<db_sessions, db_lock, db_messages, nuuid>>
    /\ Hub /\ UNCHANGED <<bvars, pvars>>

ApiNext ==
    \/ PostSession
    \/ \E r \in DOMAIN requests : PostSessionRefresh(r)
    \/ \E r \in DOMAIN requests : PostSessionEnds(r)
    \/ \E sid \in Ids : DeleteSession(sid)
    \/ \E r \in DOMAIN requests : DeleteSessionCommit(r)
    \/ \E r \in DOMAIN requests : DeleteSessionEnds(r)
    \/ \E sid \in Ids : GetSession(sid)
    \/ \E r \in DOMAIN requests : GetSessionEnds(r)
    \/ \E sid \in Ids : PostMessage(sid)
    \/ \E r \in DOMAIN requests : PostMessageStores(r)
    \/ \E r \in DOMAIN requests : PostMessageRefresh(r)
    \/ \E r \in DOMAIN requests : PostMessageEnds(r)
    \/ \E sid \in Ids : ListMessages(sid)
    \/ \E r \in DOMAIN requests : ListMessagesEnds(r)

ApiSpec == Init /\ [][ApiNext]_<<vars, avars>>

\* ------------------------------------------------------------ vocabulary of the claims
IsPrefix(a, b) == Len(a) <= Len(b) /\ \A i \in 1..Len(a) : a[i] = b[i]

Has(seq, e) == \E i \in 1..Len(seq) : seq[i] = e

Pos(seq, e) == CHOOSE i \in 1..Len(seq) : seq[i] = e

Texts == 1..MaxSubmits

\* A worker that can still run code of its own.
Live(k) == worker[k].pc \notin {"cancelled", "crashed"} /\ ~worker[k].cancel

\* A call of sampling_loop that has neither returned nor raised nor been abandoned.
InProgress(k) == worker[k].pc = "sampling" /\ ~worker[k].cancel

\* No task can take a step: every worker has ended or waits at an empty queue,
\* every hook task has ended.
Quiet ==
    /\ \A k \in DOMAIN worker :
          \/ worker[k].pc \in {"cancelled", "crashed"}
          \/ worker[k].pc = "wait" /\ ~worker[k].cancel /\ queue[worker[k].wq] = << >>
    /\ \A h \in DOMAIN hooks : hooks[h].pc = "done"

\* No worker is inside the dispatch of the text c.
DispatchOver(c) == \A k \in DOMAIN worker : worker[k].text # c

\* ------------------------------------------------------------ the claims
\* C1: the texts submitted to a registered session that was never removed are
\* handed to sampling_loop one call each, in submission order: the calls made so
\* far are a prefix of the texts submitted, and once no task can run any more
\* every submitted text has had its call.
C1_EveryTextInvokedInOrder ==
    \A sid \in DOMAIN sessions :
        sid \notin removed =>
            /\ IsPrefix(invoked[sid], submitted[sid])
            /\ Quiet => invoked[sid] = submitted[sid]

\* C2: at most one call of sampling_loop is in progress for a session id.
C2_OneInvocationAtATime ==
    \A sid \in Ids :
        Cardinality({k \in DOMAIN worker : worker[k].sid = sid /\ InProgress(k)}) <= 1

\* C3: a registered id has exactly one live worker task, an id that is not
\* registered has none.
C3_OneLiveWorkerPerSession ==
    \A sid \in Ids :
        LET live == {k \in DOMAIN worker : worker[k].sid = sid /\ Live(k)}
        IN  IF sid \in DOMAIN sessions THEN Cardinality(live) = 1 ELSE live = {}

\* C4: a pull-sink that was subscribed when the dispatch of a text began and
\* was never dropped, and that has received status(completed) of that dispatch,
\* has received user_message, then status(processing), then every event the
\* computation emitted through the hooks during the dispatch, all of them before
\* status(completed).
C4_HookEventsBeforeCompleted ==
    \A q \in PullSinks, sid \in Ids, c \in Texts :
        LET r == recvQ[q]
            um == Event("user_message", sid, c, 0)
            pr == Event("processing", sid, c, 0)
            co == Event("completed", sid, c, 0)
        IN  (Has(r, um) /\ Has(r, co) /\ <<sid, q>> \notin left) =>
                /\ Has(r, pr)
                /\ Pos(r, um) < Pos(r, pr)
                /\ Pos(r, pr) < Pos(r, co)
                /\ \A i \in 1..Len(emitted[sid]) :
                      LET e == emitted[sid][i]
                      IN  (e.type = "hook" /\ e.text = c) =>
                              Has(r, e) /\ Pos(r, pr) < Pos(r, e) /\ Pos(r, e) < Pos(r, co)

\* C5: in a session created once and never removed, when sampling_loop raised
\* in the dispatch of a text and that dispatch is over, a pull-sink that was
\* subscribed when the dispatch began and was never dropped has received
\* user_message, status(processing) and the error event in this order and no
\* status(completed) of that dispatch; and the worker still serves the session:
\* once no task can run any more every submitted text has had its call.
C5_RaiseGivesErrorAndWorkerSurvives ==
    \A q \in PullSinks, sid \in DOMAIN sessions, c \in raisedIn :
        LET r == recvQ[q]
            um == Event("user_message", sid, c, 0)
            pr == Event("processing", sid, c, 0)
            er == Event("error", sid, c, 0)
            co == Event("completed", sid, c, 0)
        IN  (/\ Len(worker) = 1
             /\ sid \notin removed
             /\ Has(r, um)
             /\ <<sid, q>> \notin left
             /\ DispatchOver(c)) =>
                /\ Has(r, pr) /\ Has(r, er) /\ ~Has(r, co)
                /\ Pos(r, um) < Pos(r, pr)
                /\ Pos(r, pr) < Pos(r, er)
                /\ Quiet => invoked[sid] = submitted[sid]

\* The events of session sid in recv, a sequence a sink received, stand in the
\* order in which the session emitted them.
InEmissionOrder(recv, sid) ==
    \A i, j \in 1..Len(recv) :
        (i < j /\ recv[i].sid = sid /\ recv[j].sid = sid) =>
            Pos(emitted[sid], recv[i]) < Pos(emitted[sid], recv[j])

\* C6: every subscriber, push-sink or pull-sink, receives the events of a
\* session in the order in which they were emitted.
C6_DeliveryInEmissionOrder ==
    \A sid \in Ids :
        /\ \A w \in PushSinks : InEmissionOrder(recvW[w], sid)
        /\ \A q \in PullSinks : InEmissionOrder(recvQ[q], sid)

\* C7: as long as no broadcast has raised, the broadcasts of a session attempt
\* at most one send to a push-sink whose send fails: after the first failed
\* attempt no broadcast, a concurrent one included, sends to it again.
C7_OneFailedSendPerSink ==
    (\A f \in faults : f[2] # "RuntimeError") =>
        \A sid \in Ids, w \in PushSinks : failed[sid][w] <= 1

\* C8: while no send fails (so that no broadcast takes a sink out of the set),
\* subscribe and unsubscribe calls made during a suspended broadcast never make
\* a broadcast raise.
C8_SubscribeDuringBroadcastIsSafe ==
    closed = {} => \A f \in faults : f[2] # "RuntimeError"

\* C9: once remove_session has taken an id out of the registry, and until the
\* id is created again, no call of sampling_loop starts for it.
C9_NoInvocationAfterRemove ==
    [][\A sid \in Ids :
          (sid \in removed /\ sid \notin DOMAIN sessions) => invoked'[sid] = invoked[sid]]_vars

\* C10: a submit on an id that is not registered gives its caller the error
\* SessionNotFound.
C10_SubmitUnknownIdFails ==
    (last.op = "submit" /\ ~last.known) => last.ret = "SessionNotFound"

\* C11: a create on an id that is registered leaves the session that is there as
\* it is: as long as the id stays registered, its session record (with the
\* history in it), its queue and its worker handle are the same objects after
\* every step, a create_session call on the id included.
C11_CreateOnTakenIdChangesNothing ==
    [][\A sid \in DOMAIN sessions :
          sid \in DOMAIN sessions' =>
              /\ sessions'[sid] = sessions[sid]
              /\ message_queues'[sid] = message_queues[sid]
              /\ processing_tasks'[sid] = processing_tasks[sid]]_vars

\* C12: a subscribe on an id that is not registered adds no subscriber: while an
\* id is not registered, no step puts a push-sink or a pull-sink into a
\* subscriber set of that id.
C12_SubscribeUnknownIdAddsNothing ==
    [][\A sid \in Ids :
          sid \notin DOMAIN sessions =>
              /\ GetDefault(websocket_clients', sid) \subseteq GetDefault(websocket_clients, sid)
              /\ GetDefault(sse_clients', sid) \subseteq GetDefault(sse_clients, sid)]_vars

\* C13: no failure during a dispatch ends a worker: a worker whose loop was left
\* through `except Exception` of _process_session left it for the KeyError of
\* the queue lookup of a removed id, never for an exception of a dispatch.
C13_NoDispatchFailureEndsWorker ==
    \A k \in DOMAIN worker :
        worker[k].pc = "crashed" => <<<<"w", k>>, "KeyError", NoEvent>> \in faults

Registries(M) ==
    <<M.sessions, M.message_queues, M.websocket_clients, M.sse_clients,
      M.processing_tasks, M.worker, M.hooks, M.messages, M.queue, M.faults>>

\* C15: remove_session is idempotent, and on an id that was never created it is
\* a no-op: in every reachable state, a second call right after a first one
\* changes nothing, and a call on an id no create_session was ever made for
\* changes nothing and raises nothing.
C15_RemoveIdempotentNoOpOnUnknown ==
    \A sid \in Ids :
        LET M1 == RemoveSession(State, sid)
        IN  /\ Registries(RemoveSession(M1, sid)) = Registries(M1)
            /\ (\A k \in DOMAIN worker : worker[k].sid # sid) =>
                   Registries(M1) = Registries(State)

\* C16: once remove_session has taken an id out of the registry, and until the
\* id is created again, no step of a task that is still running (a broadcast
\* or a hook task that was in flight at the remove) makes a registry entry for
\* the id: a registry that holds nothing for the id holds nothing after the step.
C16_NoEntryAfterRemove ==
    [][\A sid \in Ids :
          (sid \in removed /\ sid \notin DOMAIN sessions' /\ ncalls' = ncalls) =>
              /\ sid \notin DOMAIN message_queues'
              /\ sid \notin DOMAIN processing_tasks'
              /\ sid \notin DOMAIN websocket_clients => sid \notin DOMAIN websocket_clients'
              /\ sid \notin DOMAIN sse_clients => sid \notin DOMAIN sse_clients']_vars

\* The session id has no subscriber, with or without entries in the registries.
NoSubscribers(sid) ==
    GetDefault(websocket_clients, sid) = {} /\ GetDefault(sse_clients, sid) = {}

\* C19: a broadcast to a session without subscribers is a no-op: the step in
\* which a hook task makes its broadcast_to_session call for such a session ends
\* the task, raises nothing, delivers nothing, and leaves the five registries
\* (no entry is made for the id), the histories and the queues as they were.
C19_BroadcastToNobodyIsNoOp ==
    [][\A h \in DOMAIN hooks :
          (hooks[h].pc = "start" /\ hooks'[h].pc # "start" /\ NoSubscribers(hooks[h].sid)) =>
              /\ hooks'[h].pc = "done"
              /\ faults' = faults
              /\ recvW' = recvW /\ recvQ' = recvQ
              /\ websocket_clients' = websocket_clients
              /\ sse_clients' = sse_clients
              /\ sessions' = sessions
              /\ message_queues' = message_queues
              /\ processing_tasks' = processing_tasks
              /\ messages' = messages /\ queue' = queue /\ worker' = worker]_vars

\* C19 witness: a hook task has made its broadcast for a session that has no
\* subscriber and no entry in the push-subscriber registry.
C19_Witness ==
    \E h \in DOMAIN hooks :
        /\ hooks[h].pc = "done"
        /\ hooks[h].sid \notin DOMAIN websocket_clients
        /\ NoSubscribers(hooks[h].sid)
        /\ \A w \in PushSinks : recvW[w] = << >>
        /\ \A q \in PullSinks : recvQ[q] = << >>

\* C17: for every event of a broadcast and every subscriber at most one send of
\* the event to the subscriber is attempted: no two send_json calls are made
\* with the same event on the same push-sink, and no event is put twice on the
\* queue of a pull-sink.
C17_OneSendPerEventAndSink ==
    /\ \A i, j \in DOMAIN sent : sent[i] = sent[j] => i = j
    /\ \A q \in PullSinks : \A i, j \in DOMAIN putq[q] : putq[q][i] = putq[q][j] => i = j

\* C18: a broadcast is never blocked: whenever broadcast_to_session awaits a
\* send, the send can return (with the event sent or with an exception), so
\* that the loop goes on to the remaining subscribers.
C18_BroadcastNeverBlocked ==
    bc.pc = "send" => ENABLED SendReturns

\* C20: when the dial of the proxy has failed and handle_websocket has
\* returned, the inbound peer has been sent a connection-failure notice and
\* neither forwarding task was ever created.
C20_DialFailureNotifiesPeer ==
    (dial = "failed" /\ handler = "returned") =>
        /\ \E i \in DOMAIN ws_out : ws_out[i].kind = "notice"
        /\ client_to_vnc.pc = "none"
        /\ vnc_to_client.pc = "none"

\* The inbound framed connection is closed: its peer closed it, or the proxy
\* sent a close frame on it.
InboundClosed == ws_peer = "gone" \/ \E i \in DOMAIN ws_out : ws_out[i].kind = "close"

\* C21: when a pump of an established pairing has terminated and
\* handle_websocket has returned, the other pump has been cancelled and both
\* endpoints are closed: the TCP socket and the inbound framed connection.
C21_BothEndpointsClosedAtReturn ==
    (dial = "ok" /\ handler = "returned") =>
        /\ Finished(client_to_vnc) \/ client_to_vnc.cancel
        /\ Finished(vnc_to_client) \/ vnc_to_client.cancel
        /\ sock = "closed"
        /\ InboundClosed

\* The bytes of a sequence of frames, one after the other.
RECURSIVE Concat(_)
Concat(frames) == IF frames = << >> THEN << >> ELSE Head(frames) \o Concat(Tail(frames))

\* The binary frames sent to the inbound peer, and the payload of each.
Delivered == [i \in DOMAIN ws_out |-> ws_out[i].data]

\* The proxy is relaying: the handler awaits asyncio.wait and neither pump has
\* ended or been cancelled.
Proxying ==
    /\ handler = "wait"
    /\ ~Finished(client_to_vnc) /\ ~client_to_vnc.cancel
    /\ ~Finished(vnc_to_client) /\ ~vnc_to_client.cancel

\* C22: while the proxy relays, each direction carries exactly the bytes
\* received, in order: the frames sent to the inbound peer, then the chunk
\* whose send is awaited, then the bytes not yet read are the stream of the
\* server; the bytes written to the socket, then the frames not yet received,
\* are the frames of the peer; every frame sent holds 1 to 4096 bytes, and
\* when nothing is in flight the frames sent are the bytes read.
C22_RelayKeepsBytes ==
    Proxying =>
        /\ Concat(Delivered) \o vnc_to_client.data \o sock_in = [k \in 1..nbytes |-> ServerByte(k)]
        /\ sock_out \o Concat(ws_in) = [k \in 1..nframes |-> k]
        /\ \A i \in DOMAIN ws_out :
              /\ ws_out[i].kind = "bytes"
              /\ Len(ws_out[i].data) >= 1
              /\ Len(ws_out[i].data) <= ChunkSize
        /\ vnc_to_client.pc = "read" => vnc_to_client.data = << >>

\* C22 witness: the proxy relays, and a payload longer than a chunk has gone
\* to the inbound peer whole, in more than one frame, as has a frame of the
\* peer to the socket.
C22_Witness ==
    /\ Proxying
    /\ nbytes > ChunkSize
    /\ Len(Concat(Delivered)) = nbytes
    /\ Len(ws_out) >= 2
    /\ sock_out # << >>

\* C23: when an established pairing has run to its end (handle_websocket has
\* returned and both pumps have finished, so that the proxy takes no further
\* step), a closed inbound side has its TCP socket closed, and an outbound
\* side that reached its end (the pump that reads it ended by itself) has its
\* inbound connection closed.
C23_OneSideClosedClosesTheOther ==
    (dial = "ok" /\ handler = "returned" /\ Finished(client_to_vnc) /\ Finished(vnc_to_client)) =>
        /\ ws_peer = "gone" => sock = "closed"
        /\ vnc_to_client.pc = "done" => InboundClosed

\* The state of the proxy's state machine the handler stands in.
Phase(h) ==
    CASE h \in {"called", "dial"} -> "CONNECTING"
      [] h = "wait" -> "PROXYING"
      [] h = "wait_closed" -> "CLOSING"
      [] h = "returned" -> "CLOSED"

C26_InvocationSeesOwnUserTurn ==
    [][\A k \in DOMAIN worker :
          (worker[k].pc # "sampling" /\ worker'[k].pc = "sampling") =>
              LET s == worker'[k].sess
                  c == worker'[k].text
                  sid == worker'[k].sid
                  um == Event("user_message", sid, c, 0)
                  pr == Event("processing", sid, c, 0)
              IN  /\ messages'[s] # << >>
                  /\ messages'[s][Len(messages'[s])] = <<"user", c>>
                  /\ Has(emitted'[sid], um) /\ Has(emitted'[sid], pr)
                  /\ Pos(emitted'[sid], um) < Pos(emitted'[sid], pr)]_vars

\* The number of elements of seq that are e.
Count(seq, e) == Cardinality({i \in 1..Len(seq) : seq[i] = e})

\* C27: in the step in which sampling_loop returns to a worker of a
\* registered session, status(completed) of the dispatched text is emitted,
\* for the only time, and the history of the session becomes the history
\* returned (the history passed, with the assistant turn), to which only the
\* user turn of the next text is added when the worker goes on to dispatch it
\* in the same run.
C27_ReturnedHistoryReplacesHistory ==
    [][\A k \in DOMAIN worker :
          LET sid == worker[k].sid
              c == worker[k].text
              co == Event("completed", sid, c, 0)
              returned == Append(messages[worker[k].sess], <<"assistant", c>>)
          IN  (InProgress(k) /\ sid \in DOMAIN sessions
                 /\ Count(emitted'[sid], co) > Count(emitted[sid], co)) =>
                  /\ Count(emitted'[sid], co) = 1
                  /\ sid \in DOMAIN sessions'
                  /\ LET h == messages'[sessions'[sid]]
                     IN  \/ h = returned
                         \/ /\ worker'[k].text # c
                            /\ h = Append(returned, <<"user", worker'[k].text>>)]_vars

\* The status(completed) events among the events emitted for a session.
Completed(sid) == {i \in 1..Len(emitted[sid]) : emitted[sid][i].type = "completed"}

\* remove_session has cancelled a worker of the session inside a dispatch
\* (suspended in sampling_loop or in a send), and the worker has not run since.
AbandonedDispatch(sid) ==
    \E k \in DOMAIN worker :
        worker[k].sid = sid /\ worker[k].cancel /\ worker[k].pc \in {"sampling", "send"}

\* C28: after remove_session has cancelled the worker of a session inside a
\* dispatch, and as long as the id is not created again, no step emits a
\* status(completed) for the session, changes a history of the session, or
\* takes a text from a queue of the session.
C28_RemoveAbandonsDispatch ==
    [][\A sid \in Ids :
          (sid \in removed /\ sid \notin DOMAIN sessions /\ sid \notin DOMAIN sessions'
             /\ AbandonedDispatch(sid)) =>
              /\ Completed(sid)' = Completed(sid)
              /\ \A j \in DOMAIN worker :
                    worker[j].sid = sid => messages'[j] = messages[j] /\ queue'[j] = queue[j]]_vars

\* A step leaves what belongs to the session id B as it is: its registry
\* entries, its subscriber sets, its records (histories, queues, workers), its
\* hook tasks, and what was submitted, emitted and invoked for it.
Untouched(B) ==
    /\ (B \in DOMAIN sessions') = (B \in DOMAIN sessions)
    /\ B \in DOMAIN sessions => sessions'[B] = sessions[B]
    /\ (B \in DOMAIN message_queues') = (B \in DOMAIN message_queues)
    /\ B \in DOMAIN message_queues => message_queues'[B] = message_queues[B]
    /\ (B \in DOMAIN processing_tasks') = (B \in DOMAIN processing_tasks)
    /\ B \in DOMAIN processing_tasks => processing_tasks'[B] = processing_tasks[B]
    /\ (B \in DOMAIN websocket_clients') = (B \in DOMAIN websocket_clients)
    /\ GetDefault(websocket_clients', B) = GetDefault(websocket_clients, B)
    /\ (B \in DOMAIN sse_clients') = (B \in DOMAIN sse_clients)
    /\ GetDefault(sse_clients', B) = GetDefault(sse_clients, B)
    /\ \A j \in DOMAIN worker' :
          IF j \in DOMAIN worker
            THEN worker[j].sid = B =>
                    worker'[j] = worker[j] /\ messages'[j] = messages[j] /\ queue'[j] = queue[j]
            ELSE worker'[j].sid # B
    /\ \A h \in DOMAIN hooks' :
          IF h \in DOMAIN hooks THEN hooks[h].sid = B => hooks'[h] = hooks[h]
                                ELSE hooks'[h].sid # B
    /\ emitted'[B] = emitted[B] /\ submitted'[B] = submitted[B] /\ invoked'[B] = invoked[B]

\* In a step the task T, which is T2 after the step, makes a send_json call.
SendStarts(T, T2) ==
    /\ T2.pc = "send" /\ ~T2.cancel
    /\ ~(T.pc = "send" /\ T.cur = T2.cur /\ T.ev = T2.ev)

\* C30: sessions are isolated.  Every step (an API call, a step of a
\* dispatch, a step of a broadcast) is a step of one session and leaves what
\* belongs to every other session untouched; a send of an event of a session
\* is made only to a push-sink in the subscriber set of that session (the set
\* the broadcast iterates, which remove_session may have taken from the
\* registry meanwhile), and an event of a session is put only on the queue of
\* a pull-sink that is in the subscriber set of that session.
C30_SessionsIsolated ==
    [][/\ \E A \in Ids : \A B \in Ids \ {A} : Untouched(B)
       /\ \A k \in DOMAIN worker :
             SendStarts(worker[k], worker'[k]) =>
                 worker'[k].cur \in (IF worker'[k].att
                                       THEN GetDefault(websocket_clients', worker'[k].sid)
                                       ELSE worker'[k].obj)
       /\ \A h \in DOMAIN hooks :
             SendStarts(hooks[h], hooks'[h]) =>
                 hooks'[h].cur \in (IF hooks'[h].att
                                      THEN GetDefault(websocket_clients', hooks'[h].sid)
                                      ELSE hooks'[h].obj)
       /\ \A q \in PullSinks : \A i \in (Len(recvQ[q]) + 1)..Len(recvQ'[q]) :
             q \in GetDefault(sse_clients, recvQ'[q][i].sid)]_vars

\* C30 witness: two sessions are registered, each with a subscriber of its
\* own; the subscriber of the first has been sent an event of that session,
\* the subscriber of the second has been sent nothing.
C30_Witness ==
    /\ DOMAIN sessions = Ids
    /\ websocket_clients = [i \in Ids |-> IF i = "s1" THEN {1} ELSE {2}]
    /\ recvW[1] # << >> /\ recvW[2] = << >>

\* C24: once a DELETE of a session id has been answered with 200, the id is
\* not registered in the session manager, and every GET of the id that is
\* made after that answer is answered with 404; and the step that answers a
\* DELETE with 404 leaves the session manager as it is.
C24_DeletedSessionIsGone ==
    [][/\ \A r1 \in DOMAIN requests' :
             (requests'[r1].op = "delete" /\ requests'[r1].status = 200) =>
                 /\ requests'[r1].sid \notin DOMAIN sessions'
                 /\ \A r2 \in DOMAIN requests' :
                       (/\ requests'[r2].op = "get"
                        /\ requests'[r2].sid = requests'[r1].sid
                        /\ r1 \in requests'[r2].after
                        /\ requests'[r2].status # 0) => requests'[r2].status = 404
       /\ \A r \in DOMAIN requests :
             (requests[r].op = "delete" /\ requests[r].status = 0 /\ requests'[r].status = 404) =>
                 UNCHANGED vars]_<<vars, avars>>

\* The POST requests of a message that were answered 200 before the request l
\* was made, for the session of l.
PostedBefore(l) ==
    {r \in requests[l].after : /\ requests[r].op = "post"
                               /\ requests[r].sid = requests[l].sid
                               /\ requests[r].status = 200}

\* C25: a POST of a message to a session whose row exists is answered with no
\* other status than 200, its response carries a message_id and the id of the
\* session, and it has stored exactly one row with that id, that session and
\* the role user; a listing with the default limit made after k such answers
\* (k at most the limit) returns at least k messages.
C25_PostStoresUserMessage ==
    /\ \A r \in DOMAIN requests :
          (requests[r].op = "post" /\ requests[r].val) =>
              /\ requests[r].status \in {0, 200}
              /\ requests[r].status = 200 =>
                    /\ requests[r].mid # << >>
                    /\ Cardinality({i \in DOMAIN db_messages :
                            /\ db_messages[i].id = requests[r].mid
                            /\ db_messages[i].session_id = requests[r].sid
                            /\ db_messages[i].role = "user"
                            /\ db_messages[i].content = requests[r].text}) = 1
    /\ \A l \in DOMAIN requests :
          (requests[l].op = "list" /\ Cardinality(PostedBefore(l)) <= PageLimit) =>
              requests[l].val >= Cardinality(PostedBefore(l))

C25_Witness ==
    \E l \in DOMAIN requests :
        /\ requests[l].op = "list" /\ requests[l].status = 200
        /\ Cardinality(PostedBefore(l)) = 2
        /\ requests[l].val = 2

\* C33: when a POST of a message is answered with status "queued", the session
\* is registered in the session manager and the answering step has put the
\* text at the end of the session's queue.
C33_QueuedMeansOnTheQueue ==
    [][\A r \in DOMAIN requests :
          (requests[r].op = "post" /\ requests[r].status = 0 /\ requests'[r].status = 200) =>
              /\ requests[r].sid \in DOMAIN message_queues
              /\ queue'[message_queues[requests[r].sid]]
                    = Append(queue[message_queues[requests[r].sid]], requests[r].text)]_<<vars, avars>>

\* The proxy is in CLOSING or past it: asyncio.wait has returned to the
\* handler, which has cancelled the pending pump and closed the writer.
Closing == dial = "ok" /\ handler \in {"wait_closed", "returned"}

\* C32: from CLOSING on, no step writes a byte to the outbound socket and no
\* step sends a frame to the inbound connection.
C32_NothingRelayedAfterClosing ==
    [][Closing => (sock_out' = sock_out /\ ws_out' = ws_out)]_pvars

\* The handler has returned after it cancelled a pump that had something left
\* to relay: frames of the peer that were never received, or bytes of the
\* server that were never read.
C32_Witness ==
    /\ Closing /\ handler = "returned"
    /\ \/ client_to_vnc.pc = "cancelled" /\ ws_in # << >>
       \/ vnc_to_client.pc = "cancelled" /\ sock_in # << >>

\* session["messages"] of the session registered under sid.
History(sid) == messages[sessions[sid]]

\* The same, after the step.
HistoryAfter(sid) == messages'[sessions'[sid]]

\* The step leaves sid registered with the session dict it had: it is a step
\* between the create_session and the remove_session of that registration.
BetweenCreateAndRemove(sid) ==
    /\ sid \in DOMAIN sessions /\ sid \in DOMAIN sessions'
    /\ sessions'[sid] = sessions[sid]

\* The step is a step of a worker task of sid.
WorkerStep(sid) ==
    /\ ncalls' = ncalls
    /\ \E k \in DOMAIN worker : worker[k].sid = sid /\ worker'[k] # worker[k]

\* The step is a subscribe or unsubscribe call of the transport layer for sid.
TransportCall(sid) ==
    \/ \E w \in PushSinks : SubscribeWS(sid, w) \/ UnsubscribeWS(sid, w)
    \/ \E q \in PullSinks : SubscribeSSE(sid, q) \/ UnsubscribeSSE(sid, q)

SubscribersUnchanged(sid) ==
    /\ GetDefault(websocket_clients', sid) = GetDefault(websocket_clients, sid)
    /\ GetDefault(sse_clients', sid) = GetDefault(sse_clients, sid)

\* C31: between create and remove, a step that changes the history of a
\* session is a step of a worker of that session, and a step that changes the
\* subscriber sets of the session is a subscribe or unsubscribe call for it.
C31_FrameOfHistoryAndSubscribers ==
    [][\A sid \in Ids :
          BetweenCreateAndRemove(sid) =>
              /\ HistoryAfter(sid) # History(sid) => WorkerStep(sid)
              /\ ~SubscribersUnchanged(sid) => TransportCall(sid)]_vars

\* The step is the end of the WebSocket loop of a broadcast of sid: the
\* push-sinks whose send raised are discarded from the set of sid, and nothing
\* else of the subscriber sets changes.
DeadSinksDropped(sid) ==
    /\ ncalls' = ncalls
    /\ GetDefault(sse_clients', sid) = GetDefault(sse_clients, sid)
    /\ GetDefault(websocket_clients', sid) \subseteq GetDefault(websocket_clients, sid)
    /\ \E ref \in Refs :
          LET T == Task(State, ref)
          IN  /\ T.sid = sid /\ T.pc = "send"
              /\ GetDefault(websocket_clients, sid) \ GetDefault(websocket_clients', sid)
                    \subseteq (T.dead \cup {T.cur}) \cap closed

\* C31, amended: between create and remove, a step that changes the history
\* of a session is a step of a worker of that session, and a step that changes
\* the subscriber sets of the session is a subscribe or unsubscribe call for
\* it or the end of a broadcast of the session, which discards the push-sinks
\* whose send failed.
C31_FrameWithDeadSinkDrop ==
    [][\A sid \in Ids :
          BetweenCreateAndRemove(sid) =>
              /\ HistoryAfter(sid) # History(sid) => WorkerStep(sid)
              /\ ~SubscribersUnchanged(sid) => (TransportCall(sid) \/ DeadSinksDropped(sid))]_vars

\* A registered session that was never removed has a history, and a push-sink
\* whose send failed is no longer in its subscriber set while another sink is.
C31_Witness ==
    \E sid \in DOMAIN sessions :
        /\ sid \notin removed
        /\ History(sid) # << >>
        /\ \E w \in closed : failed[sid][w] > 0 /\ w \notin GetDefault(websocket_clients, sid)
        /\ GetDefault(websocket_clients, sid) # {}

\* In the sequence recv of the events delivered to a subscriber, no hook event
\* of a dispatch of sid comes after the user_message event of another message
\* of sid that was emitted later than the hook event.
DispatchesApart(recv, sid) ==
    \A i, j \in DOMAIN recv :
        (/\ i < j
         /\ recv[i].sid = sid /\ recv[i].type = "user_message"
         /\ recv[j].sid = sid /\ recv[j].type = "hook"
         /\ recv[j].text # recv[i].text)
            => ~(/\ Has(emitted[sid], recv[i]) /\ Has(emitted[sid], recv[j])
                 /\ Pos(emitted[sid], recv[j]) < Pos(emitted[sid], recv[i]))

\* C34: at every subscriber, an event emitted through the hooks during the
\* dispatch of a message is delivered before the user_message event of the
\* next message of the session.
C34_DispatchesNotInterleaved ==
    \A sid \in Ids :
        /\ \A w \in PushSinks : DispatchesApart(recvW[w], sid)
        /\ \A q \in PullSinks : DispatchesApart(recvQ[q], sid)

\* A send that the task T, which is T2 after the step, starts in the step goes
\* to a sink that is in the set the broadcast iterates: the subscriber set of
\* the session as it is after the step or, once remove_session has taken the
\* set out of the registry, the set as it was then.
SendsToSubscriber(T, T2) ==
    SendStarts(T, T2) =>
        T2.cur \in (IF T2.att THEN GetDefault(websocket_clients', T2.sid) ELSE T2.obj)

\* A broadcast iterates a set that is not the registry's only when it was
\* inside its WebSocket loop at the remove_session that dropped the set, and
\* the set it keeps is the subscriber set of that moment.
DetachedOnlyByRemove(T, T2) ==
    (T2.pc = "send" /\ ~T2.cancel /\ ~T2.att) =>
        /\ T.pc = "send" /\ T.ev = T2.ev
        /\ IF T.att THEN /\ T.sid \in DOMAIN websocket_clients
                         /\ T.sid \notin DOMAIN websocket_clients'
                         /\ T2.obj = websocket_clients[T.sid]
                    ELSE T2.obj = T.obj

\* C35: a sink is sent an event only while it is in the subscriber set of the
\* event's session, and the event is that of a broadcast in progress; an
\* unsubscribe call takes the sink out of the set and only a subscribe call
\* puts a sink into it.  Hence after unsubscribe(id, sink) has returned no
\* broadcast that starts afterwards sends to the sink, and a broadcast that
\* completed before a subscribe sends nothing to the sink.  A pull-sink leaves
\* the subscriber set only by unsubscribe or remove.
C35_OnlySubscribersReceive ==
    [][/\ \A k \in DOMAIN worker :
             SendsToSubscriber(worker[k], worker'[k]) /\ DetachedOnlyByRemove(worker[k], worker'[k])
       /\ \A h \in DOMAIN hooks :
             SendsToSubscriber(hooks[h], hooks'[h]) /\ DetachedOnlyByRemove(hooks[h], hooks'[h])
       /\ \A w \in PushSinks :
             recvW'[w] # recvW[w] =>
                 \E ref \in Refs :
                     LET T == Task(State, ref)
                     IN  /\ T.pc = "send" /\ ~T.cancel /\ T.cur = w
                         /\ recvW'[w] = Append(recvW[w], T.ev)
       /\ \A q \in PullSinks :
             /\ ncalls' # ncalls => recvQ'[q] = recvQ[q]
             /\ \A i \in (Len(recvQ[q]) + 1)..Len(recvQ'[q]) :
                   q \in GetDefault(sse_clients, recvQ'[q][i].sid)
       /\ \A sid \in Ids :
             /\ \A w \in PushSinks :
                   /\ UnsubscribeWS(sid, w) => w \notin GetDefault(websocket_clients', sid)
                   /\ (w \notin GetDefault(websocket_clients, sid)
                       /\ w \in GetDefault(websocket_clients', sid)) => SubscribeWS(sid, w)
             /\ \A q \in PullSinks :
                   /\ UnsubscribeSSE(sid, q) => q \notin GetDefault(sse_clients', sid)
                   /\ (q \notin GetDefault(sse_clients, sid)
                       /\ q \in GetDefault(sse_clients', sid)) => SubscribeSSE(sid, q)
                   /\ (q \in GetDefault(sse_clients, sid)
                       /\ q \notin GetDefault(sse_clients', sid)) =>
                          (UnsubscribeSSE(sid, q) \/ Remove(sid))]_vars

\* A push-sink that was sent events of a registered session has been
\* unsubscribed from it, its peer still there, and a broadcast has sent its
\* event to a sink that stayed and not to the one that left.  The sink that
\* left comes first in the order of the iteration, so that broadcast began
\* when it had left.
C35_Witness ==
    \E sid \in DOMAIN sessions : \E w, v \in PushSinks :
        /\ sid \notin removed
        /\ w < v
        /\ w \notin closed /\ w \notin GetDefault(websocket_clients, sid)
        /\ v \in GetDefault(websocket_clients, sid)
        /\ recvW[w] # << >> /\ recvW[w][1].sid = sid
        /\ IsPrefix(recvW[w], recvW[v]) /\ Len(recvW[v]) > Len(recvW[w])

====
